---- MODULE Spec2Model ----
(***************************************************************************)
(* Model of 00_data_prep.ipynb: the monthly partition download             *)
(* (download_nyc_taxi_data) and the chunked, size-limited CSV export       *)
(* (write_csv_with_size_limit).                                            *)
(***************************************************************************)
EXTENDS Integers, Sequences, FiniteSets, TLC

\* ------------------------------------------------------------------ bounds
\* Number of consecutive calendar months the start and end dates are drawn from.
NumMonths == 3
\* Longest list of data types passed to the download.
MaxTypes == 2
\* Largest number of rows of the DataFrame.
MaxRows == 4
\* Largest chunk size tried (the notebook fixes 10000; the model scales it down).
MaxChunk == 3
\* Largest size limit tried, in bytes.
MaxLimit == 12

VARIABLES
    \* download_nyc_taxi_data
    start_date, end_date, data_types,   \* the arguments
    current_date,                       \* loop variable of the while loop
    type_idx,                           \* position of the for loop in data_types
    fpc,                                \* position of the call
    requested,                          \* requests.get calls made, in order
    saved,                              \* files present under nyc_taxi_data/
    printed,                            \* failure lines printed
    \* write_csv_with_size_limit
    df, size_limit, chunk_size,         \* the arguments and the chunk size
    total_rows, start_index, end_index, \* the locals
    file_exists, file,                  \* output_file on disk
    pc,                                 \* position of the call
    log,                                \* records emitted through logger
    chunks,                             \* to_csv calls that reached the file
    sizes,                              \* sizes measured after chunk writes
    exc                                 \* the exception raised in the try body, if any

fetchVars == <<start_date, end_date, data_types, current_date, type_idx, fpc,
               requested, saved, printed>>
exportVars == <<df, size_limit, chunk_size, total_rows, start_index, end_index,
                file_exists, file, pc, log, chunks, sizes, exc>>
vars == <<fetchVars, exportVars>>

Min(a, b) == IF a <= b THEN a ELSE b

\* ============================================================== calendar
IsLeap(y) == (y % 4 = 0 /\ y % 100 # 0) \/ y % 400 = 0

DaysInMonth(y, m) ==
    IF m = 2 THEN (IF IsLeap(y) THEN 29 ELSE 28)
    ELSE IF m \in {4, 6, 9, 11} THEN 30 ELSE 31

Date(y, m, d) == [year |-> y, month |-> m, day |-> d]

\* datetime comparison: current_date <= end_date
DateLE(a, b) ==
    \/ a.year < b.year
    \/ a.year = b.year /\ a.month < b.month
    \/ a.year = b.year /\ a.month = b.month /\ a.day <= b.day

RECURSIVE Normalize(_, _, _)
Normalize(y, m, d) ==
    IF d <= DaysInMonth(y, m) THEN Date(y, m, d)
    ELSE IF m = 12 THEN Normalize(y + 1, 1, d - DaysInMonth(y, m))
    ELSE Normalize(y, m + 1, d - DaysInMonth(y, m))

\* date + timedelta(days=n)
AddDays(date, n) == Normalize(date.year, date.month, date.day + n)

\* date.replace(day=1)
ReplaceDay1(date) == [date EXCEPT !.day = 1]

\* current_date += timedelta(days=32); current_date = current_date.replace(day=1)
NextDate(date) == ReplaceDay1(AddDays(date, 32))

\* The calendar months the inputs are drawn from: December 2023 onwards, so
\* that the window crosses a year boundary and a February.
MonthAt(k) == [year |-> 2023 + ((11 + k) \div 12), month |-> ((11 + k) % 12) + 1]
Window == {MonthAt(k) : k \in 0..(NumMonths - 1)}
Dates == UNION {{Date(w.year, w.month, d) : d \in 1..DaysInMonth(w.year, w.month)}
                : w \in Window}

\* ============================================================== download
TypeNames == <<"yellow", "green", "fhv", "fhvhv">>
TypeLists == {SubSeq(TypeNames, 1, n) : n \in 0..Min(MaxTypes, Len(TypeNames))}

StatusCodes == {200, 500}

\* f"{data_type}_tripdata_{current_date.strftime('%Y-%m')}.parquet"
FileName(data_type, date) == <<data_type, date.year, date.month>>

\* os.path.join(f"nyc_taxi_data/{data_type}/{current_date.year}", file_name)
OutputPath(data_type, date) == <<data_type, date.year, FileName(data_type, date)>>

FetchInit ==
    /\ start_date \in Dates
    /\ end_date \in Dates
    /\ DateLE(start_date, end_date)
    /\ data_types \in TypeLists
    /\ current_date = start_date
    /\ type_idx = 1
    /\ fpc = "while"
    /\ requested = <<>>
    /\ saved = {}
    /\ printed = <<>>
    \* write_csv_with_size_limit is not running
    /\ df = <<>>
    /\ size_limit = 1
    /\ chunk_size = 1
    /\ total_rows = 0
    /\ start_index = 0
    /\ end_index = [bound |-> FALSE, val |-> 0]
    /\ file_exists = FALSE
    /\ file = <<>>
    /\ pc = "idle"
    /\ log = <<>>
    /\ chunks = <<>>
    /\ sizes = <<>>
    /\ exc = "none"

\* while current_date <= end_date:
FetchWhile ==
    /\ fpc = "while"
    /\ IF DateLE(current_date, end_date)
         THEN fpc' = "for" /\ type_idx' = 1
         ELSE fpc' = "returned" /\ UNCHANGED type_idx
    /\ UNCHANGED <<start_date, end_date, data_types, current_date,
                   requested, saved, printed>>
    /\ UNCHANGED exportVars

\* One iteration of the for loop whose requests.get answers with a status.
FetchOne ==
    /\ fpc = "for"
    /\ type_idx <= Len(data_types)
    /\ \E status \in StatusCodes :
         LET data_type == data_types[type_idx]
             file_name == FileName(data_type, current_date)
         IN /\ requested' = Append(requested, file_name)
            /\ IF status = 200
                 THEN /\ saved' = saved \cup {OutputPath(data_type, current_date)}
                      /\ UNCHANGED printed
                 ELSE /\ printed' = Append(printed, [file |-> file_name, status |-> status])
                      /\ UNCHANGED saved
    /\ type_idx' = type_idx + 1
    /\ UNCHANGED <<start_date, end_date, data_types, current_date, fpc>>
    /\ UNCHANGED exportVars

\* One iteration of the for loop whose requests.get raises (a transport
\* error): nothing in the function catches it, so the call ends with it.
FetchRaise ==
    /\ fpc = "for"
    /\ type_idx <= Len(data_types)
    /\ requested' = Append(requested, FileName(data_types[type_idx], current_date))
    /\ fpc' = "raised"
    /\ UNCHANGED <<start_date, end_date, data_types, current_date, type_idx,
                   saved, printed>>
    /\ UNCHANGED exportVars

\* End of the for loop: step to the first day of the next month.
FetchAdvance ==
    /\ fpc = "for"
    /\ type_idx > Len(data_types)
    /\ current_date' = NextDate(current_date)
    /\ fpc' = "while"
    /\ UNCHANGED <<start_date, end_date, data_types, type_idx,
                   requested, saved, printed>>
    /\ UNCHANGED exportVars

\* ================================================================ export
\* The DataFrame has one integer column; a row is the value of its cell.
ColumnName == <<"f", "a", "r", "e">>
RowValues == {7, 42}
Tables == UNION {[1..n -> RowValues] : n \in 0..MaxRows}

DigitChars == <<"0", "1", "2", "3", "4", "5", "6", "7", "8", "9">>

RECURSIVE Digits(_)
Digits(v) ==
    IF v < 10 THEN <<DigitChars[v + 1]>>
    ELSE Digits(v \div 10) \o <<DigitChars[(v % 10) + 1]>>

\* A file is a sequence of lines, a line a sequence of characters ending in "\n".
HeaderLine == ColumnName \o <<"\n">>
FormatRow(v) == Digits(v) \o <<"\n">>
IsDataLine(line) == \E v \in RowValues : line = FormatRow(v)

\* df.iloc[a:b]
Iloc(d, a, b) == SubSeq(d, a + 1, Min(b, Len(d)))

\* What chunk.to_csv(..., header=h, index=False) emits.
ChunkLines(chunk, h) ==
    (IF h THEN <<HeaderLine>> ELSE <<>>) \o [i \in 1..Len(chunk) |-> FormatRow(chunk[i])]

\* Opening output_file in mode 'w' truncates it, mode 'a' keeps its content.
OpenFile(mode, content) == IF mode = "w" THEN <<>> ELSE content

RECURSIVE GetSize(_)
\* os.path.getsize(output_file)
GetSize(content) ==
    IF content = <<>> THEN 0 ELSE Len(Head(content)) + GetSize(Tail(content))

\* Variant of ChunkEnd that forgets to clamp the last chunk to the table.
ChunkEndUnclamped(start, chunk, total) == start + chunk

\* end_index = min(start_index + chunk_size, total_rows)
ChunkEnd(start, chunk, total) == Min(start + chunk, total)

\* Variants of LimitReached: a strict comparison, and a break taken whatever
\* the size.
LimitReachedStrict(size, limit) == size > limit
LimitReachedAlways(size, limit) == TRUE

\* if current_size_mb >= size_limit_mb
LimitReached(size, limit) == size >= limit

\* Variants of RowsReported: the total is logged as written, or the start of
\* the last chunk instead of its end.
RowsReportedTotal(end, total) == total
RowsReportedStart(end, total) == start_index

\* logger.info(f"Rows written: {end_index} out of {total_rows}")
RowsReported(end, total) == end

\* Variant of OnException without the handler: the exception leaves the call.
OnExceptionUncaught == "escaped"

\* try: ... except Exception as e: an exception raised in the body goes to
\* the handler.
OnException == "except"

Unbound == [bound |-> FALSE, val |-> 0]
Bound(n) == [bound |-> TRUE, val |-> n]

\* Content output_file may have before the call (when it exists): empty,
\* unrelated text, or an earlier export.
OldLine == <<"o", "l", "d", "\n">>
PriorContents == {<<>>, <<OldLine>>, <<HeaderLine, FormatRow(42), FormatRow(42)>>}

\* The limit is a positive number of bytes (size_limit_mb * 1024 * 1024); the
\* notebook passes 99 MB.  The chunk size, 10000 in the notebook, is drawn
\* from 1..MaxChunk.
ExportInit ==
    /\ df \in Tables
    /\ size_limit \in 1..MaxLimit
    /\ chunk_size \in 1..MaxChunk
    /\ total_rows = Len(df)
    /\ start_index = 0
    /\ end_index = Unbound
    /\ \/ file_exists = FALSE /\ file = <<>>
       \/ file_exists = TRUE /\ file \in PriorContents
    /\ pc = "while"
    /\ log = <<>>
    /\ chunks = <<>>
    /\ sizes = <<>>
    /\ exc = "none"
    \* download_nyc_taxi_data is not running; its arguments are the notebook's
    /\ start_date = Date(2024, 1, 1)
    /\ end_date = Date(2024, 1, 31)
    /\ data_types = <<"yellow">>
    /\ current_date = start_date
    /\ type_idx = 1
    /\ fpc = "idle"
    /\ requested = <<>>
    /\ saved = {}
    /\ printed = <<>>

\* while start_index < total_rows:
ExportWhile ==
    /\ pc = "while"
    /\ pc' = IF start_index < total_rows THEN "write" ELSE "final"
    /\ UNCHANGED <<df, size_limit, chunk_size, total_rows, start_index, end_index,
                   file_exists, file, log, chunks, sizes, exc>>
    /\ UNCHANGED fetchVars

\* The chunk write succeeds.
ExportWrite ==
    /\ pc = "write"
    /\ LET e == ChunkEnd(start_index, chunk_size, total_rows)
           chunk == Iloc(df, start_index, e)
           mode == IF start_index = 0 THEN "w" ELSE "a"
           lines == ChunkLines(chunk, start_index = 0)
       IN /\ end_index' = Bound(e)
          /\ file' = OpenFile(mode, file) \o lines
          /\ file_exists' = TRUE
          /\ chunks' = Append(chunks, [start |-> start_index, end |-> e,
                                       bytes |-> GetSize(lines)])
    /\ pc' = "measure"
    /\ UNCHANGED <<df, size_limit, chunk_size, total_rows, start_index,
                   log, sizes, exc>>
    /\ UNCHANGED fetchVars

\* The chunk write raises: either the file could not be opened (it is left
\* as it was) or the write stopped after some of the chunk's lines.
ExportWriteRaise ==
    /\ pc = "write"
    /\ LET e == ChunkEnd(start_index, chunk_size, total_rows)
           chunk == Iloc(df, start_index, e)
           mode == IF start_index = 0 THEN "w" ELSE "a"
           lines == ChunkLines(chunk, start_index = 0)
       IN /\ end_index' = Bound(e)
          /\ \/ UNCHANGED <<file, file_exists, chunks>>
             \/ \E k \in 0..(Len(lines) - 1) :
                  /\ file' = OpenFile(mode, file) \o SubSeq(lines, 1, k)
                  /\ file_exists' = TRUE
                  /\ chunks' = Append(chunks, [start |-> start_index, end |-> e,
                                               bytes |-> GetSize(SubSeq(lines, 1, k))])
    /\ exc' = "OSError"
    /\ pc' = OnException
    /\ UNCHANGED <<df, size_limit, chunk_size, total_rows, start_index, log, sizes>>
    /\ UNCHANGED fetchVars

\* The size check after a chunk: break at the limit, else go on.
ExportMeasure ==
    /\ pc = "measure"
    /\ LET current_size == GetSize(file)
       IN /\ sizes' = Append(sizes, current_size)
          /\ IF LimitReached(current_size, size_limit)
               THEN /\ log' = Append(log, [msg |-> "reached", size |-> current_size])
                    /\ pc' = "final"
                    /\ UNCHANGED start_index
               ELSE /\ start_index' = end_index.val
                    /\ pc' = "while"
                    /\ UNCHANGED log
    /\ UNCHANGED <<df, size_limit, chunk_size, total_rows, end_index,
                   file_exists, file, chunks, exc>>
    /\ UNCHANGED fetchVars

\* os.path.getsize raises after a chunk write.
ExportMeasureRaise ==
    /\ pc = "measure"
    /\ exc' = "OSError"
    /\ pc' = OnException
    /\ UNCHANGED <<df, size_limit, chunk_size, total_rows, start_index, end_index,
                   file_exists, file, log, chunks, sizes>>
    /\ UNCHANGED fetchVars

\* After the loop: the final size and the row count are logged.  Reading
\* end_index when no chunk was written raises UnboundLocalError.
ExportFinal ==
    /\ pc = "final"
    /\ file_exists
    /\ LET final_size == GetSize(file)
           sized == Append(log, [msg |-> "final", size |-> final_size])
       IN IF end_index.bound
            THEN /\ log' = Append(sized, [msg |-> "rows",
                                          rows |-> RowsReported(end_index.val, total_rows),
                                          total |-> total_rows])
                 /\ pc' = "returned"
                 /\ UNCHANGED exc
            ELSE /\ log' = sized
                 /\ pc' = OnException
                 /\ exc' = "UnboundLocalError"
    /\ UNCHANGED <<df, size_limit, chunk_size, total_rows, start_index, end_index,
                   file_exists, file, chunks, sizes>>
    /\ UNCHANGED fetchVars

\* The final os.path.getsize raises: always when output_file does not
\* exist, possibly otherwise.
ExportFinalRaise ==
    /\ pc = "final"
    /\ exc' = "OSError"
    /\ pc' = OnException
    /\ UNCHANGED <<df, size_limit, chunk_size, total_rows, start_index, end_index,
                   file_exists, file, log, chunks, sizes>>
    /\ UNCHANGED fetchVars

\* except Exception as e: logger.error(...)
ExportExcept ==
    /\ pc = "except"
    /\ log' = Append(log, [msg |-> "error", limit |-> size_limit, cause |-> exc])
    /\ pc' = "returned"
    /\ UNCHANGED <<df, size_limit, chunk_size, total_rows, start_index, end_index,
                   file_exists, file, chunks, sizes, exc>>
    /\ UNCHANGED fetchVars

\* ======================================================== specifications
FetchNext == FetchWhile \/ FetchOne \/ FetchRaise \/ FetchAdvance
SpecFetch == FetchInit /\ [][FetchNext]_vars

ExportNext ==
    \/ ExportWhile
    \/ ExportWrite
    \/ ExportWriteRaise
    \/ ExportMeasure
    \/ ExportMeasureRaise
    \/ ExportFinal
    \/ ExportFinalRaise
    \/ ExportExcept
SpecExport == ExportInit /\ [][ExportNext]_vars

\* ==================================================== download: claims
\* Number of calendar months from s's month to e's month, both included.
MonthsBetween(s, e) == (e.year - s.year) * 12 + (e.month - s.month) + 1

\* The k-th calendar month after the month of date s (k = 0 is s's month).
MonthAfter(s, k) ==
    [year |-> s.year + ((s.month - 1 + k) \div 12), month |-> ((s.month - 1 + k) % 12) + 1]

\* One request per (month, data type), months in chronological order.
ExpectedRequests ==
    LET n == Len(data_types)
    IN [i \in 1..(MonthsBetween(start_date, end_date) * n) |->
          LET mo == MonthAfter(start_date, (i - 1) \div n)
          IN <<data_types[((i - 1) % n) + 1], mo.year, mo.month>>]

\* C1: when the download returns, it has requested exactly one file per
\* (calendar month, data type) for every month from the start date's month to
\* the end date's month, in chronological order, none skipped or repeated.
C1_EveryMonthRequested ==
    fpc = "returned" => requested = ExpectedRequests

\* C2: a failing retrieval (a non-200 answer or an exception raised by the
\* request) never ends the download: no exception leaves the call, every
\* partition of the range is requested, and each request is either saved
\* (answer 200) or has its failure printed.
C2_FailureIsolated ==
    /\ fpc # "raised"
    /\ fpc = "returned" =>
         /\ requested = ExpectedRequests
         /\ Len(requested) = Cardinality(saved) + Len(printed)

\* ====================================================== export: claims
IoFailed == exc = "OSError"

\* The call has logged "Rows written: ... out of ..." and returned.
Completed == pc = "returned" /\ log # <<>> /\ log[Len(log)].msg = "rows"
rowsWritten == log[Len(log)].rows
finalSize == log[Len(log) - 1].size

\* Data rows present in output_file.
SinkRows == Cardinality({i \in DOMAIN file : IsDataLine(file[i])})

\* Header plus the first n rows of the table, serialized.
Serialized(n) == <<HeaderLine>> \o [i \in 1..n |-> FormatRow(df[i])]
FirstChunkBytes == GetSize(Serialized(Min(chunk_size, total_rows)))
FullBytes == GetSize(Serialized(total_rows))

C4_RowsWrittenIsLastChunkEnd ==
    Completed =>
        /\ rowsWritten = chunks[Len(chunks)].end
        /\ rowsWritten <= total_rows
        /\ rowsWritten % chunk_size = 0 \/ rowsWritten = total_rows
        /\ rowsWritten = SinkRows

C4_Witness ==
    /\ Completed
    /\ Len(chunks) >= 2
    /\ rowsWritten = total_rows
    /\ rowsWritten % chunk_size # 0

\* C5 as stated: when header plus first chunk serialize to >= the limit,
\* exactly one chunk is written and the reported count is the chunk size.
C5_OneChunkOfChunkSize ==
    (Completed /\ FirstChunkBytes >= size_limit) =>
        /\ Len(chunks) = 1
        /\ rowsWritten = chunk_size

\* C5 amended: for a non-empty table whose header plus first chunk serialize
\* to >= the limit, a call without I/O failure writes exactly one chunk and
\* reports min(chunk size, total rows) rows, which is not zero.
C5_OneChunkOfMinSize ==
    (pc = "returned" /\ ~IoFailed /\ total_rows > 0 /\ FirstChunkBytes >= size_limit) =>
        /\ Completed
        /\ Len(chunks) = 1
        /\ rowsWritten = Min(chunk_size, total_rows)
        /\ rowsWritten > 0

C5_Witness ==
    /\ Completed
    /\ FirstChunkBytes >= size_limit
    /\ total_rows < chunk_size
    /\ rowsWritten = total_rows

\* C6: when the limit is larger than the fully serialized table, a call
\* without I/O failure writes the whole table and reports rowsWritten =
\* totalRows, for tables of any row count, zero included.
C6_FullExport ==
    (pc = "returned" /\ ~IoFailed /\ size_limit > FullBytes) =>
        /\ Completed
        /\ rowsWritten = total_rows
        /\ file = Serialized(total_rows)

\* C7: the reported final size is below the limit only if all rows were
\* written; with fewer rows written it is >= the limit.
C7_SmallOnlyIfFull ==
    Completed => (finalSize < size_limit => rowsWritten = total_rows)

C7_Witness ==
    /\ Completed
    /\ rowsWritten < total_rows
    /\ finalSize >= size_limit
    /\ Len(chunks) >= 2

\* C8: a failing chunk write or size measurement never leaves the call: it is
\* caught and logged with the limit and the cause, and the call returns.
C8_FailureCaught ==
    /\ pc # "escaped"
    /\ (pc = "returned" /\ IoFailed) =>
         log[Len(log)] = [msg |-> "error", limit |-> size_limit, cause |-> "OSError"]

C8_Witness ==
    /\ pc = "returned"
    /\ IoFailed
    /\ Len(chunks) >= 2
    /\ log[Len(log)].msg = "error"

C10_FreshArtifact ==
    (pc = "returned" /\ ~IoFailed) =>
        \E n \in 0..total_rows :
            /\ file = Serialized(n)
            /\ Completed => n = rowsWritten

====
